---- MODULE Spec2Model ----
(***************************************************************************)
(* Upload lifecycle controller (pages/Upload.tsx), results page            *)
(* (pages/Results.tsx) and the estimate service client they call           *)
(* (api/client.ts), as state machines.                                     *)
(*                                                                         *)
(* The controller's React state is the variables file, uploading,          *)
(* progress, result, error and dragActive.  Every call of handleUpload     *)
(* starts one task: one pending uploadPDF promise, which lives in `tasks`  *)
(* until its response, its failure or its timeout is delivered.  The       *)
(* handlers run to completion between events (single-threaded event loop), *)
(* so each handler, and each continuation after the await, is one action.  *)
(*                                                                         *)
(* An optional value (File | null, string | null) is a sequence of length  *)
(* 0 or 1: Null is <<>>, Some(x) is <<x>>.  A message is the sequence of    *)
(* the string fragments the code concatenates.                             *)
(*                                                                         *)
(* The results page's React state is the variables estimate, loading,      *)
(* pageError (its `error`), expandedRows, sortField, sortDirection and     *)
(* exporting, with the route parameter id; fetches and exportCall are its  *)
(* pending getEstimate and exportEstimate promises.  `call` is one call of *)
(* a client operation by any caller.                                       *)
(*                                                                         *)
(* Spec and FairSpec run the upload page, ResultsSpec the results page,    *)
(* ViewSpec the derivations of the results page over every estimate of the *)
(* bounds, ClientSpec the client operations called directly.               *)
(***************************************************************************)
EXTENDS Integers, Sequences, FiniteSets, TLC

VARIABLES
    file,        \* useState<File | null>            Upload.tsx:32
    uploading,   \* useState(false)                   Upload.tsx:33
    progress,    \* useState(0)                       Upload.tsx:34
    result,      \* useState<EstimateResponse | null> Upload.tsx:35
    error,       \* useState<string | null>           Upload.tsx:36
    dragActive,  \* useState(false)                   Upload.tsx:37
    tasks,       \* the pending uploadPDF promises, by task number
    nextId,      \* number of the next task handleUpload starts
    requested,   \* files for which POST /api/upload was issued
    id,            \* useParams().id                        Results.tsx:38
    estimate,      \* useState<Estimate | null>(null)       Results.tsx:42
    loading,       \* useState(true)                        Results.tsx:43
    pageError,     \* useState<string | null>(null), error  Results.tsx:44
    expandedRows,  \* useState<Set<number>>(new Set())      Results.tsx:45
    sortField,     \* useState<SortField>('type')           Results.tsx:46
    sortDirection, \* useState<SortDirection>('asc')        Results.tsx:47
    exporting,     \* useState<string | null>(null)         Results.tsx:48
    fetches,       \* ids of the pending getEstimate calls, oldest first
    exportCall,    \* the pending exportEstimate call of handleExport
    call           \* a call of a client operation: pending, or its outcome

uploadVars == <<file, uploading, progress, result, error, dragActive,
                tasks, nextId, requested>>

pageVars == <<id, estimate, loading, pageError, expandedRows, sortField,
              sortDirection, exporting, fetches, exportCall>>

clientVars == <<call>>

vars == <<uploadVars, pageVars, clientVars>>

ctl == <<file, uploading, progress, result, error>>

-----------------------------------------------------------------------------
(* Bounds of the model *)

MaxTasks == 2          \* handleUpload calls in one behaviour
BodyUnits == 3         \* size of a request body, in units of progress
MaxItems == 3          \* items of an estimate the view derivations are given
MaxFetches == 2        \* getEstimate calls pending at one time
MaxUlps == 1           \* distance of a confidence below 0.80 or 0.95, in ulps
MaxTotal == 8          \* progressEvent.total of the percentages computed

-----------------------------------------------------------------------------
(* Constants of the program *)

MAX_FILE_SIZE == 26214400      \* 25 * 1024 * 1024
MiB == 1048576                 \* 1024 * 1024

ACCEPTED_TYPE == "application/pdf"

Null == <<>>
Some(x) == <<x>>

\* The files a user can choose or drop: two valid PDFs (one of exactly the
\* ceiling), a file of another type, and a PDF one byte over the ceiling.
Files ==
    { [name |-> "a.pdf",   type |-> "application/pdf", size |-> 2097152],
      [name |-> "b.pdf",   type |-> "application/pdf", size |-> 26214400],
      [name |-> "x.txt",   type |-> "text/plain",      size |-> 1024],
      [name |-> "big.pdf", type |-> "application/pdf", size |-> 26214401] }

\* interventions_found of a success response
Found == {3}

TaskIds == 1..MaxTasks

-----------------------------------------------------------------------------
(* Upload.tsx: validateFile *)

Pad2(n) == IF n < 10 THEN <<"0", ToString(n)>> ELSE <<ToString(n)>>

\* (size / (1024 * 1024)).toFixed(2): the size in MiB rounded to hundredths
toFixed2(size) ==
    LET whole == size \div MiB
        hund  == ((size % MiB) * 100 + MiB \div 2) \div MiB
    IN  IF hund = 100 THEN <<ToString(whole + 1), ".">> \o Pad2(0)
                      ELSE <<ToString(whole), ".">> \o Pad2(hund)

\* validateFile without its size check
validateFile_typeOnly(selectedFile) ==
    IF selectedFile.type # ACCEPTED_TYPE
    THEN Some(<<"Invalid file type. Please select a PDF file.">>)
    ELSE Null

\* validateFile with the ceiling itself refused
validateFile_exclusiveCeiling(selectedFile) ==
    IF selectedFile.type # ACCEPTED_TYPE
    THEN Some(<<"Invalid file type. Please select a PDF file.">>)
    ELSE IF selectedFile.size >= MAX_FILE_SIZE
    THEN Some(<<"File size (">> \o toFixed2(selectedFile.size)
                \o <<" MB) exceeds the 25 MB limit.">>)
    ELSE Null

validateFile(selectedFile) ==
    IF selectedFile.type # ACCEPTED_TYPE
    THEN Some(<<"Invalid file type. Please select a PDF file.">>)
    ELSE IF selectedFile.size > MAX_FILE_SIZE
    THEN Some(<<"File size (">> \o toFixed2(selectedFile.size)
                \o <<" MB) exceeds the 25 MB limit.">>)
    ELSE Null

-----------------------------------------------------------------------------
(* client.ts: handleApiError and uploadPDF *)

\* What the try block of a client operation can throw.
\*   thrown   a plain Error thrown inside the try block (not an axios error)
\*   service  the service answered with an error status and an envelope
\*   noreply  the request was made and no response came (network, timeout)
\*   setup    the request could not be set up
ServiceErrors ==
    { [kind |-> "service", status |-> 500, message |-> "Processing failed"],
      [kind |-> "service", status |-> 413, message |-> ""] }

NetworkError == [kind |-> "noreply", status |-> 0, message |-> "Network Error"]

\* axios gives up after API_TIMEOUT ms: code ECONNABORTED, no response
TimeoutError ==
    [kind |-> "noreply", status |-> 0, message |-> "timeout exceeded"]

SetupError == [kind |-> "setup", status |-> 0, message |-> "Invalid URL"]

ThrownError(m) == [kind |-> "thrown", status |-> 0, message |-> m]

AxiosFailures == ServiceErrors \cup {NetworkError, SetupError}

\* handleApiError without the `|| API Error: <status>` of an envelope
\* that has no message
handleApiError_noFallback(e) ==
    IF e.kind # "thrown"
    THEN IF e.kind = "service"
         THEN <<e.message>>
         ELSE IF e.kind = "noreply"
         THEN <<"Network error: Unable to reach the server. Please check your connection.">>
         ELSE <<"Request error: ", e.message>>
    ELSE <<"An unexpected error occurred">>

\* handleApiError reporting the status of every error response
handleApiError_statusOnly(e) ==
    IF e.kind # "thrown"
    THEN IF e.kind = "service"
         THEN <<"API Error: ", ToString(e.status)>>
         ELSE IF e.kind = "noreply"
         THEN <<"Network error: Unable to reach the server. Please check your connection.">>
         ELSE <<"Request error: ", e.message>>
    ELSE <<"An unexpected error occurred">>

\* The message of the Error that handleApiError throws
handleApiError(e) ==
    IF e.kind # "thrown"
    THEN IF e.kind = "service"
         THEN IF e.message # "" THEN <<e.message>>
              ELSE <<"API Error: ", ToString(e.status)>>
         ELSE IF e.kind = "noreply"
         THEN <<"Network error: Unable to reach the server. Please check your connection.">>
         ELSE <<"Request error: ", e.message>>
    ELSE <<"An unexpected error occurred">>

\* uploadPDF's own checks before the POST: Null, or the Error thrown
uploadPDFCheck(f) ==
    IF f.type # "application/pdf"
    THEN Some(ThrownError("Invalid file type. Please upload a PDF file."))
    ELSE IF f.size > 25 * 1024 * 1024
    THEN Some(ThrownError("File size exceeds 25 MB limit."))
    ELSE Null

\* the percentage without the division by total
percentCompleted_notDivided(loaded, total) == loaded * 100

\* Math.round((loaded * 100) / total)
percentCompleted(loaded, total) == (2 * loaded * 100 + total) \div (2 * total)

\* response.data of a successful POST /api/upload of file f
Response(f, n) ==
    [success |-> TRUE, filename |-> f.name, interventions_found |-> n]

-----------------------------------------------------------------------------
(* Tasks *)

NoTask == [status |-> "unused", file |-> Null, loaded |-> 0,
           sent |-> FALSE, abandoned |-> FALSE]

InFlight(t) == tasks[t].status = "inflight"

\* A settled promise; how it settled is kept as history
Ended(how) == [NoTask EXCEPT !.status = how]

HasEnded(t) == tasks[t].status \in {"succeeded", "failed", "timedout"}

UploadInit ==
    /\ file = Null
    /\ uploading = FALSE
    /\ progress = 0
    /\ result = Null
    /\ error = Null
    /\ dragActive = FALSE
    /\ tasks = [t \in TaskIds |-> NoTask]
    /\ nextId = 1
    /\ requested = {}

\* Results.tsx: the useState initial values, before the page is mounted
PageInitial ==
    /\ id = Null
    /\ estimate = Null
    /\ loading = TRUE
    /\ pageError = Null
    /\ expandedRows = {}
    /\ sortField = "type"
    /\ sortDirection = "asc"
    /\ exporting = Null
    /\ fetches = <<>>
    /\ exportCall = Null

Init ==
    /\ UploadInit
    /\ PageInitial
    /\ call = Null

-----------------------------------------------------------------------------
(* Upload.tsx: what the page renders, which decides the handlers a user can
   reach in a state *)

\* the <input type="file">: inside {!result && ...}, {!file ? ...}, and
\* disabled={uploading}
FileInputShown == result = Null /\ file = Null /\ ~uploading

\* the drop zone: inside {!result && ...}
DropZoneShown == result = Null

\* "Upload & Process": {!result && ...}, file chosen, {!uploading && ...}
UploadButtonShown == result = Null /\ file # Null /\ ~uploading

\* "Cancel" (beside "Upload & Process"), "Retry" (in the error box) and
\* "Upload Another File" (in the results section) all call handleReset
ResetButtonShown ==
    \/ result = Null /\ file # Null /\ ~uploading
    \/ result = Null /\ error # Null
    \/ result # Null

\* The lifecycle state the page shows
State ==
    IF uploading THEN (IF progress < 100 THEN "Transferring"
                                         ELSE "ServerProcessing")
    ELSE IF result # Null THEN "Succeeded"
    ELSE IF error # Null THEN "Failed"
    ELSE IF file # Null THEN "Selected"
    ELSE "Idle"

-----------------------------------------------------------------------------
(* Upload.tsx: the handlers *)

\* acceptFile with a failed validation also dropping the selection
acceptFile_clearsSelection(f) ==
    IF validateFile(f) # Null
    THEN /\ error' = validateFile(f)
         /\ file' = Null
         /\ result' = Null
    ELSE /\ file' = Some(f)
         /\ error' = Null
         /\ result' = Null

\* setFile(f); setError(null); setResult(null), or the validation error
acceptFile(f) ==
    IF validateFile(f) # Null
    THEN /\ error' = validateFile(f)
         /\ UNCHANGED <<file, result>>
    ELSE /\ file' = Some(f)
         /\ error' = Null
         /\ result' = Null

\* chosen: event.target.files?.[0], Null when the dialog gave no file
handleFileSelect(chosen) ==
    /\ IF chosen = Null
       THEN UNCHANGED <<file, error, result>>
       ELSE acceptFile(chosen[1])
    /\ UNCHANGED <<uploading, progress, dragActive, tasks, nextId, requested>>

handleDrag(type) ==
    /\ dragActive' = IF type \in {"dragenter", "dragover"} THEN TRUE
                     ELSE IF type = "dragleave" THEN FALSE
                     ELSE dragActive
    /\ UNCHANGED <<file, uploading, progress, result, error,
                   tasks, nextId, requested>>

\* dropped: event.dataTransfer.files?.[0]
handleDrop(dropped) ==
    /\ dragActive' = FALSE
    /\ IF dropped = Null
       THEN UNCHANGED <<file, error, result>>
       ELSE acceptFile(dropped[1])
    /\ UNCHANGED <<uploading, progress, tasks, nextId, requested>>

\* handleUpload up to its await: the state is set and uploadPDF runs up to
\* its own await, that is, it checks the file and issues the POST
handleUpload ==
    IF file = Null
    THEN UNCHANGED vars
    ELSE /\ nextId <= MaxTasks
         /\ uploading' = TRUE
         /\ progress' = 0
         /\ error' = Null
         /\ result' = Null
         /\ tasks' = [tasks EXCEPT ![nextId] =
                        [status |-> "inflight", file |-> file, loaded |-> 0,
                         sent |-> uploadPDFCheck(file[1]) = Null,
                         abandoned |-> FALSE]]
         /\ requested' = IF uploadPDFCheck(file[1]) = Null
                         THEN requested \cup {file[1]} ELSE requested
         /\ nextId' = nextId + 1
         /\ UNCHANGED <<file, dragActive>>

\* handleReset without setError(null)
handleReset_keepsError ==
    /\ file' = Null
    /\ uploading' = FALSE
    /\ progress' = 0
    /\ result' = Null
    /\ tasks' = [t \in TaskIds |->
                   IF InFlight(t) THEN [tasks[t] EXCEPT !.abandoned = TRUE]
                                  ELSE tasks[t]]
    /\ UNCHANGED <<error, dragActive, nextId, requested>>

\* The pending promises are not cancelled: the tasks in flight stay in
\* flight, and are marked as abandoned by the caller.
handleReset ==
    /\ file' = Null
    /\ uploading' = FALSE
    /\ progress' = 0
    /\ result' = Null
    /\ error' = Null
    /\ tasks' = [t \in TaskIds |->
                   IF InFlight(t) THEN [tasks[t] EXCEPT !.abandoned = TRUE]
                                  ELSE tasks[t]]
    /\ UNCHANGED <<dragActive, nextId, requested>>

-----------------------------------------------------------------------------
(* The continuations of a task: the progress callback, and handleUpload
   after its await *)

\* onUploadProgress of task t with progressEvent.loaded = loaded and
\* progressEvent.total = total (0 when the length is not computable)
onUploadProgress(t, loaded, total) ==
    /\ InFlight(t)
    /\ tasks[t].sent
    /\ loaded >= tasks[t].loaded
    /\ tasks' = [tasks EXCEPT ![t].loaded = loaded]
    /\ progress' = IF total # 0 THEN percentCompleted(loaded, total)
                                ELSE progress
    /\ UNCHANGED <<file, uploading, result, error, dragActive,
                   nextId, requested>>

\* the await returns response: setResult, setProgress(100), finally
uploadResolved(t, response) ==
    /\ InFlight(t)
    /\ tasks[t].sent
    /\ result' = Some(response)
    /\ progress' = 100
    /\ uploading' = FALSE
    /\ tasks' = [tasks EXCEPT ![t] = Ended("succeeded")]
    /\ UNCHANGED <<file, error, dragActive, nextId, requested>>

\* the catch block without the finally block's setUploading(false)
uploadRejected_noFinally(t, e) ==
    /\ InFlight(t)
    /\ error' = Some(handleApiError(e))
    /\ tasks' = [tasks EXCEPT ![t] =
                   Ended(IF e = TimeoutError THEN "timedout" ELSE "failed")]
    /\ UNCHANGED <<file, uploading, progress, result, dragActive,
                   nextId, requested>>

\* the await throws what handleApiError threw: catch, finally
uploadRejected(t, e) ==
    /\ InFlight(t)
    /\ error' = Some(handleApiError(e))
    /\ uploading' = FALSE
    /\ tasks' = [tasks EXCEPT ![t] =
                   Ended(IF e = TimeoutError THEN "timedout" ELSE "failed")]
    /\ UNCHANGED <<file, progress, result, dragActive, nextId, requested>>

-----------------------------------------------------------------------------
(* The events *)

SelectFile ==
    /\ FileInputShown
    /\ \E chosen \in {Null} \cup {Some(f) : f \in Files} :
          handleFileSelect(chosen)
    /\ UNCHANGED <<pageVars, clientVars>>

Drag ==
    /\ DropZoneShown
    /\ \E type \in {"dragenter", "dragover", "dragleave"} : handleDrag(type)
    /\ UNCHANGED <<pageVars, clientVars>>

DropFile ==
    /\ DropZoneShown
    /\ \E dropped \in {Null} \cup {Some(f) : f \in Files} :
          handleDrop(dropped)
    /\ UNCHANGED <<pageVars, clientVars>>

StartUpload ==
    /\ UploadButtonShown
    /\ handleUpload
    /\ UNCHANGED <<pageVars, clientVars>>

Reset ==
    /\ ResetButtonShown
    /\ handleReset
    /\ UNCHANGED <<pageVars, clientVars>>

ProgressEvent ==
    /\ \E t \in TaskIds, loaded \in 0..BodyUnits, total \in {0, BodyUnits} :
          onUploadProgress(t, loaded, total)
    /\ UNCHANGED <<pageVars, clientVars>>

\* the service, having received the whole body, answers task t's POST with
\* a success response
UploadSucceeds(t) ==
    \E n \in Found :
        /\ InFlight(t)
        /\ tasks[t].loaded = BodyUnits
        /\ uploadResolved(t, Response(tasks[t].file[1], n))
        /\ UNCHANGED <<pageVars, clientVars>>

\* task t's uploadPDF fails: what axios threw, or the Error of its own checks
UploadFails(t) ==
    /\ InFlight(t)
    /\ IF tasks[t].sent
       THEN \E e \in AxiosFailures : uploadRejected(t, e)
       ELSE uploadRejected(t, uploadPDFCheck(tasks[t].file[1])[1])
    /\ UNCHANGED <<pageVars, clientVars>>

\* no response within API_TIMEOUT ms: axios aborts the request of task t
UploadTimesOut(t) ==
    /\ InFlight(t)
    /\ tasks[t].sent
    /\ uploadRejected(t, TimeoutError)
    /\ UNCHANGED <<pageVars, clientVars>>

Settles(t) == UploadSucceeds(t) \/ UploadFails(t) \/ UploadTimesOut(t)

Next ==
    \/ SelectFile
    \/ Drag
    \/ DropFile
    \/ StartUpload
    \/ Reset
    \/ ProgressEvent
    \/ \E t \in TaskIds : UploadSucceeds(t)
    \/ \E t \in TaskIds : UploadFails(t)
    \/ \E t \in TaskIds : UploadTimesOut(t)

Spec == Init /\ [][Next]_vars

\* Every pending call settles: the service answers, the network fails, or
\* the timeout of the axios instance expires.
FairSpec == Spec /\ \A t \in TaskIds : WF_vars(Settles(t))

-----------------------------------------------------------------------------
(* client.ts: a client operation called by any caller *)

EstimateIds == {"e1", "e2"}

Formats == {"csv", "json", "pdf"}

\* new Error(message)
NewError(message) == [name |-> "Error", message |-> message]

\* A call: the operation, its File argument, and the URL it requests
ClientCall(op, f, url) == [op |-> op, file |-> f, url |-> url]

ClientCalls ==
    {ClientCall("uploadPDF", Some(f), <<"/api/upload">>) : f \in Files}
    \cup {ClientCall("getEstimate", Null, <<"/api/estimate/", i>>) :
            i \in EstimateIds}
    \cup {ClientCall("deleteEstimate", Null, <<"/api/estimate/", i>>) :
            i \in EstimateIds}
    \cup {ClientCall("exportEstimate", Null,
                     <<"/api/estimate/", i, "/export", "?format=", format>>) :
            i \in EstimateIds, format \in Formats}
    \cup {ClientCall("getEstimateSummary", Null,
                     <<"/api/estimate/", i, "/summary">>) : i \in EstimateIds}
    \cup {ClientCall("listEstimates", Null, <<"/api/estimates">>),
          ClientCall("searchMaterialPrices", Null, <<"/api/pricing/search">>),
          ClientCall("getMaterialPrice", Null, <<"/api/pricing/", "cement">>),
          ClientCall("getMaterialCategories", Null,
                     <<"/api/pricing/categories">>),
          ClientCall("getPricingStatistics", Null,
                     <<"/api/pricing/statistics">>),
          ClientCall("checkHealthStatus", Null, <<"/health">>)}

\* The operation up to its await.  uploadPDF's own checks throw inside its
\* try block, so its catch block hands their Error to handleApiError; every
\* other call issues its request.
clientBegin(c) ==
    IF c.op = "uploadPDF" /\ uploadPDFCheck(c.file[1]) # Null
    THEN [op |-> c.op, file |-> c.file, url |-> c.url,
          status |-> "raised", sent |-> FALSE, reached |-> Null,
          raised |->
            Some(NewError(handleApiError(uploadPDFCheck(c.file[1])[1])))]
    ELSE [op |-> c.op, file |-> c.file, url |-> c.url,
          status |-> "pending", sent |-> TRUE, reached |-> Null,
          raised |-> Null]

Pending == call # Null /\ call[1].status = "pending"

clientCalled(c) ==
    /\ call = Null
    /\ call' = Some(clientBegin(c))

\* return response.data
clientResolved ==
    /\ Pending
    /\ call' = Some([call[1] EXCEPT !.status = "returned"])

\* catch (error) { handleApiError(error); } with e what axios threw
clientRejected(e) ==
    /\ Pending
    /\ call' = Some([call[1] EXCEPT !.status = "raised",
                                    !.reached = Some(e),
                                    !.raised =
                                       Some(NewError(handleApiError(e)))])

\* the caller has taken the outcome
clientDone ==
    /\ call # Null
    /\ ~Pending
    /\ call' = Null

CallOperation ==
    /\ \E c \in ClientCalls : clientCalled(c)
    /\ UNCHANGED <<uploadVars, pageVars>>

ServiceAnswers == clientResolved /\ UNCHANGED <<uploadVars, pageVars>>

CallFails ==
    /\ \E e \in AxiosFailures : clientRejected(e)
    /\ UNCHANGED <<uploadVars, pageVars>>

CallTimesOut == clientRejected(TimeoutError) /\ UNCHANGED <<uploadVars, pageVars>>

OutcomeTaken == clientDone /\ UNCHANGED <<uploadVars, pageVars>>

ClientNext ==
    \/ CallOperation
    \/ ServiceAnswers
    \/ CallFails
    \/ CallTimesOut
    \/ OutcomeTaken

ClientSpec == Init /\ [][ClientNext]_vars

-----------------------------------------------------------------------------
(* Results.tsx: the items of an estimate *)

SortFields == {"type", "quantity", "cost", "confidence"}

\* A confidence is an IEEE double of [0.65, 1]: the double nearest to
\* hundredths / 100, moved by ulps units of 2^-53, the spacing of the doubles
\* of [0.5, 1).  Double(80, 0) is the literal 0.80, Double(80, -1) is
\* 0.7999999999999999 (which is what 0.7 + 0.1 evaluates to).
Double(h, k) == [hundredths |-> h, ulps |-> k]

Confidences == {Double(h, k) : h \in {80, 95}, k \in (0 - MaxUlps)..0}

\* The order of the Intl collation: lower case before upper case of the same
\* letter, letters compared before case ("guardrail" < "Signage", where the
\* order of the code units has "Signage" first).
LocaleOrder == <<"guardrail", "Signage">>

Types == {LocaleOrder[i] : i \in 1..Len(LocaleOrder)}

Quantities == {1, 2}

Costs == {100, 250}

Item(t, q, c, cost) ==
    [intervention |-> [type |-> t, quantity |-> q, confidence |-> c],
     total_cost |-> cost]

Items ==
    {Item(t, q, c, cost) :
        t \in Types, q \in Quantities, c \in Confidences, cost \in Costs}

\* An item of a response in which intervention.quantity is absent
ItemWithoutQuantity(t, c, cost) ==
    [intervention |-> [type |-> t, confidence |-> c], total_cost |-> cost]

\* What GET /api/estimate/<i> can answer: response.data.estimate
Stored(i) ==
    IF i = "e1"
    THEN { [estimate_id |-> i,
            items |-> << Item("Signage", 2, Double(95, 0), 100),
                         Item("guardrail", 1, Double(80, -1), 250),
                         Item("Signage", 1, Double(80, 0), 100) >>] }
    ELSE { [estimate_id |-> i,
            items |-> << Item("guardrail", 2, Double(95, 0), 250),
                         Item("Signage", 1, Double(80, 0), 100) >>],
           [estimate_id |-> i,
            items |-> << Item("guardrail", 2, Double(95, 0), 250),
                         ItemWithoutQuantity("Signage", Double(80, 0), 100) >>] }

\* r.name, Null when it is undefined
Field(r, name) == IF name \in DOMAIN r THEN Some(r[name]) ELSE Null

-----------------------------------------------------------------------------
(* Results.tsx: sortedItems *)

\* aValue of the comparator, by the switch on sortField
SortKey(item, field) ==
    CASE field = "type" -> Field(item.intervention, "type")
      [] field = "quantity" -> Field(item.intervention, "quantity")
      [] field = "cost" -> Field(item, "total_cost")
      [] field = "confidence" -> Field(item.intervention, "confidence")

Sign(n) == IF n > 0 THEN 1 ELSE IF n < 0 THEN 0 - 1 ELSE 0

Position(s) == CHOOSE i \in 1..Len(LocaleOrder) : LocaleOrder[i] = s

\* a.localeCompare(b): negative, zero or positive
localeCompare(a, b) == Sign(Position(a) - Position(b))

\* The sign of aValue - bValue; with an undefined operand the difference is
\* NaN, which Array.prototype.sort takes as +0.
Minus(aValue, bValue, field) ==
    IF aValue = Null \/ bValue = Null THEN 0
    ELSE IF field = "confidence"
    THEN IF aValue[1].hundredths # bValue[1].hundredths
         THEN Sign(aValue[1].hundredths - bValue[1].hundredths)
         ELSE Sign(aValue[1].ulps - bValue[1].ulps)
    ELSE Sign(aValue[1] - bValue[1])

\* the comparator with the ascending branches in both directions
compare_ignoresDirection(a, b, field, direction) ==
    LET aValue == SortKey(a, field)
        bValue == SortKey(b, field)
    IN  IF field = "type"
        THEN localeCompare(aValue[1], bValue[1])
        ELSE Minus(aValue, bValue, field)

\* The comparator handed to items.sort.  An intervention.type is a string
\* in every item of the model, so `typeof aValue === 'string'` is the test
\* field = "type".
compare(a, b, field, direction) ==
    LET aValue == SortKey(a, field)
        bValue == SortKey(b, field)
    IN  IF field = "type"
        THEN IF direction = "asc" THEN localeCompare(aValue[1], bValue[1])
                                  ELSE localeCompare(bValue[1], aValue[1])
        ELSE IF direction = "asc" THEN Minus(aValue, bValue, field)
                                  ELSE Minus(bValue, aValue, field)

\* Where element x goes in the sorted prefix `order`: behind its p-th
\* element, the last one that x does not compare less than.
RECURSIVE insertionPoint(_, _, _, _, _, _)
insertionPoint(order, p, x, items, field, direction) ==
    IF p = 0 THEN 0
    ELSE IF compare(items[x], items[order[p]], field, direction) < 0
    THEN insertionPoint(order, p - 1, x, items, field, direction)
    ELSE p

\* The first n elements, sorted: element n inserted in the sorted first n-1
RECURSIVE sortPrefix(_, _, _, _)
sortPrefix(items, n, field, direction) ==
    IF n = 0 THEN <<>>
    ELSE LET order == sortPrefix(items, n - 1, field, direction)
             p == insertionPoint(order, n - 1, n, items, field, direction)
         IN  SubSeq(order, 1, p) \o <<n>> \o SubSeq(order, p + 1, n - 1)

\* a descending sort as the reverse of the ascending one
sortOrder_reversesAscending(items, field, direction) ==
    LET asc == sortPrefix(items, Len(items), field, "asc")
    IN  IF direction = "asc" THEN asc
        ELSE [i \in 1..Len(asc) |-> asc[Len(asc) + 1 - i]]

\* Array.prototype.sort with the comparator: the stable sort of the array's
\* elements (objects with an identity), given as the sequence of their
\* indices in `items`.
sortOrder(items, field, direction) ==
    sortPrefix(items, Len(items), field, direction)

\* the array the useMemo callback returns for estimate e
sortedItemsOf(e, field, direction) ==
    [i \in 1..Len(e.items) |-> e.items[sortOrder(e.items, field, direction)[i]]]

sortedItems ==
    IF estimate = Null THEN <<>>
    ELSE sortedItemsOf(estimate[1], sortField, sortDirection)

\* the callback sorting estimate.items itself
itemsAfterSort_inPlace(e, field, direction) ==
    sortedItemsOf(e, field, direction)

\* estimate.items once the useMemo callback has run: the callback sorts
\* `[...estimate.items]`, a copy
itemsAfterSort(e, field, direction) == e.items

\* estimate e once the page has rendered it
rendered(e, field, direction) ==
    [e EXCEPT !.items = itemsAfterSort(e, field, direction)]

-----------------------------------------------------------------------------
(* Results.tsx: getConfidenceBadge *)

\* 100 * fl(h/100) - h in units of 2^-53, where fl(h/100), the double
\* nearest to h/100, is round(h * 2^53 / 100) / 2^53, and 2^53 mod 100 = 92
RoundingError(h) ==
    LET r == (h * 92) % 100
    IN  IF r < 50 THEN 0 - r ELSE 100 - r

\* confidence * 100 in double arithmetic, as whole + units * 2^-53.  The
\* exact product is rounded to the nearest double; the doubles of [64, 128)
\* are 2^-46 = 128 * 2^-53 apart, and a tie goes to the even mantissa.
Times100(confidence) ==
    LET exact == RoundingError(confidence.hundredths) + 100 * confidence.ulps
        below == (exact \div 128) * 128
        rest  == exact - below
        up    == \/ rest > 64
                 \/ rest = 64 /\ (below \div 128) % 2 = 1
    IN  [whole |-> confidence.hundredths,
         units |-> IF up THEN below + 128 ELSE below]

\* percent >= n for an integer n
AtLeast(percent, n) ==
    \/ percent.whole > n
    \/ percent.whole = n /\ percent.units >= 0

getConfidenceBadge(confidence) ==
    LET percent == Times100(confidence)
    IN  IF AtLeast(percent, 95) THEN "High Confidence"
        ELSE IF AtLeast(percent, 80) THEN "Medium"
        ELSE "Review Needed"

-----------------------------------------------------------------------------
(* Results.tsx: what the page renders, and its handlers *)

\* neither the loading screen nor the error screen
TableShown == ~loading /\ pageError = Null /\ estimate # Null

RemoveAt(s, k) == SubSeq(s, 1, k - 1) \o SubSeq(s, k + 1, Len(s))

\* The effect of [id] for route parameter i: fetchEstimate up to its await
fetchEstimate(i) ==
    IF i = Null
    THEN /\ pageError' = Some(<<"No estimate ID provided">>)
         /\ loading' = FALSE
         /\ UNCHANGED fetches
    ELSE /\ loading' = TRUE
         /\ fetches' = Append(fetches, i[1])
         /\ UNCHANGED pageError

\* The page mounted on route parameter i, its effect having run
Mounted(i) ==
    /\ id = i
    /\ estimate = Null
    /\ loading = (i # Null)
    /\ pageError = IF i = Null THEN Some(<<"No estimate ID provided">>)
                               ELSE Null
    /\ fetches = IF i = Null THEN <<>> ELSE <<i[1]>>
    /\ expandedRows = {}
    /\ sortField = "type"
    /\ sortDirection = "asc"
    /\ exporting = Null
    /\ exportCall = Null

\* the await of the k-th pending call returns data: setEstimate,
\* setError(null), finally
fetchResolved(k, data) ==
    /\ estimate' = Some(rendered(data, sortField, sortDirection))
    /\ pageError' = Null
    /\ loading' = FALSE
    /\ fetches' = RemoveAt(fetches, k)
    /\ UNCHANGED <<id, expandedRows, sortField, sortDirection,
                   exporting, exportCall>>

\* the await of the k-th pending call throws: catch, finally
fetchRejected(k, e) ==
    /\ pageError' = Some(handleApiError(e))
    /\ loading' = FALSE
    /\ fetches' = RemoveAt(fetches, k)
    /\ UNCHANGED <<id, estimate, expandedRows, sortField, sortDirection,
                   exporting, exportCall>>

\* the updater with an accordion's behaviour: opening a row closes the others
newSet_collapsesOthers(prev, index) ==
    IF index \in prev THEN {} ELSE {index}

\* the updater handed to setExpandedRows: a copy of prev with index deleted
\* when it has it, added when it has not
newSet(prev, index) ==
    IF index \in prev THEN prev \ {index} ELSE prev \cup {index}

toggleRow(index) ==
    /\ expandedRows' = newSet(expandedRows, index)
    /\ UNCHANGED <<id, estimate, loading, pageError, sortField,
                   sortDirection, exporting, fetches, exportCall>>

\* handleSort keeping the direction when another field is chosen
handleSort_keepsDirection(field) ==
    /\ IF sortField = field
       THEN /\ sortDirection' = IF sortDirection = "asc" THEN "desc" ELSE "asc"
            /\ UNCHANGED sortField
       ELSE /\ sortField' = field
            /\ UNCHANGED sortDirection
    /\ estimate' = IF estimate = Null THEN Null
                   ELSE Some(rendered(estimate[1], sortField', sortDirection'))
    /\ UNCHANGED <<id, loading, pageError, expandedRows, exporting,
                   fetches, exportCall>>

handleSort(field) ==
    /\ IF sortField = field
       THEN /\ sortDirection' = IF sortDirection = "asc" THEN "desc" ELSE "asc"
            /\ UNCHANGED sortField
       ELSE /\ sortField' = field
            /\ sortDirection' = "asc"
    /\ estimate' = IF estimate = Null THEN Null
                   ELSE Some(rendered(estimate[1], sortField', sortDirection'))
    /\ UNCHANGED <<id, loading, pageError, expandedRows, exporting,
                   fetches, exportCall>>

\* handleExport up to its await.  The filename is built after the await from
\* `estimate` and `format` of the render the handler was created in, so it
\* is fixed at the call.
handleExport(format) ==
    IF id = Null \/ estimate = Null
    THEN UNCHANGED pageVars
    ELSE /\ exporting' = Some(format)
         /\ exportCall' =
              Some([id |-> id[1], format |-> format,
                    filename |-> <<"estimate_", estimate[1].estimate_id,
                                   ".", format>>])
         /\ UNCHANGED <<id, estimate, loading, pageError, expandedRows,
                        sortField, sortDirection, fetches>>

\* the await returns the blob: downloadFile(blob, filename), finally
exportResolved ==
    /\ exporting' = Null
    /\ exportCall' = Null
    /\ UNCHANGED <<id, estimate, loading, pageError, expandedRows,
                   sortField, sortDirection, fetches>>

\* the await throws: a toast, finally
exportRejected ==
    /\ exporting' = Null
    /\ exportCall' = Null
    /\ UNCHANGED <<id, estimate, loading, pageError, expandedRows,
                   sortField, sortDirection, fetches>>

-----------------------------------------------------------------------------
(* The events of the results page *)

\* the route parameter changes while the page stays mounted
Navigate ==
    /\ Len(fetches) < MaxFetches
    /\ \E i \in EstimateIds :
          /\ id # Some(i)
          /\ id' = Some(i)
          /\ fetchEstimate(Some(i))
    /\ UNCHANGED <<estimate, expandedRows, sortField, sortDirection,
                   exporting, exportCall>>
    /\ UNCHANGED <<uploadVars, clientVars>>

FetchSucceeds ==
    /\ \E k \in 1..Len(fetches) :
          \E data \in Stored(fetches[k]) : fetchResolved(k, data)
    /\ UNCHANGED <<uploadVars, clientVars>>

FetchFails ==
    /\ \E k \in 1..Len(fetches) :
          \E e \in AxiosFailures : fetchRejected(k, e)
    /\ UNCHANGED <<uploadVars, clientVars>>

ToggleRow ==
    /\ TableShown
    /\ \E index \in 0..(Len(sortedItems) - 1) : toggleRow(index)
    /\ UNCHANGED <<uploadVars, clientVars>>

Sort ==
    /\ TableShown
    /\ \E field \in SortFields : handleSort(field)
    /\ UNCHANGED <<uploadVars, clientVars>>

\* the export buttons are disabled while exporting is set
Export ==
    /\ TableShown
    /\ exporting = Null
    /\ \E format \in Formats : handleExport(format)
    /\ UNCHANGED <<uploadVars, clientVars>>

ExportSucceeds ==
    /\ exportCall # Null
    /\ exportResolved
    /\ UNCHANGED <<uploadVars, clientVars>>

ExportFails ==
    /\ exportCall # Null
    /\ exportRejected
    /\ UNCHANGED <<uploadVars, clientVars>>

ResultsInit ==
    /\ UploadInit
    /\ call = Null
    /\ \E i \in {Null} \cup {Some(e) : e \in EstimateIds} : Mounted(i)

ResultsNext ==
    \/ Navigate
    \/ FetchSucceeds
    \/ FetchFails
    \/ ToggleRow
    \/ Sort
    \/ Export
    \/ ExportSucceeds
    \/ ExportFails

ResultsSpec == ResultsInit /\ [][ResultsNext]_vars

\* The page showing an estimate of any items of the bounds
ViewInit ==
    /\ UploadInit
    /\ call = Null
    /\ \E n \in 0..MaxItems : \E items \in [1..n -> Items] :
          /\ id = Some("e1")
          /\ estimate = Some([estimate_id |-> "e1", items |-> items])
          /\ loading = FALSE
          /\ pageError = Null
          /\ fetches = <<>>
          /\ expandedRows = {}
          /\ sortField = "type"
          /\ sortDirection = "asc"
          /\ exporting = Null
          /\ exportCall = Null

ViewNext == Sort

ViewSpec == ViewInit /\ [][ViewNext]_vars

-----------------------------------------------------------------------------
(* Properties *)

Terminal == {"Succeeded", "Failed"}

\* Position of a lifecycle state in the order of section 4.2
Rank(st) ==
    CASE st = "Idle" -> 0
      [] st = "Selected" -> 1
      [] st = "Transferring" -> 2
      [] st = "ServerProcessing" -> 3
      [] OTHER -> 4

\* Idle with all task state discarded
Discarded ==
    /\ file = Null
    /\ ~uploading
    /\ progress = 0
    /\ result = Null
    /\ error = Null

ProgressOf(t) ==
    \E loaded \in 0..BodyUnits, total \in {0, BodyUnits} :
        onUploadProgress(t, loaded, total)

Rejects(t) == UploadFails(t) \/ UploadTimesOut(t)

\* C1: a file that is not of type application/pdf, or that is larger than
\* 25 MiB, fails validation, is never the selected file, and is never the
\* file of an upload request or of a task.
C1_InvalidFileNeverSelectedNorSent ==
    \A f \in Files :
        (f.type # "application/pdf" \/ f.size > 25 * 1024 * 1024) =>
            /\ validateFile(f) # Null
            /\ file # Some(f)
            /\ f \notin requested
            /\ \A t \in TaskIds : tasks[t].file # Some(f)

\* C1, its case: an invalid file was dropped while the upload of a valid
\* one is in flight; the validation message is shown, the valid file is
\* still the selected one.
C1_Witness ==
    \E f \in Files :
        /\ f.type # "application/pdf" \/ f.size > 25 * 1024 * 1024
        /\ error # Null
        /\ error = validateFile(f)
        /\ file # Null
        /\ requested # {}
        /\ \E t \in TaskIds : InFlight(t)

\* C2: after a reset during a transfer, a progress event or a response of
\* the abandoned task leaves the controller Idle, with nothing of a task.
C2_LateEventsLeaveIdle ==
    [][\A t \in TaskIds :
          (/\ InFlight(t)
           /\ tasks[t].abandoned
           /\ Discarded
           /\ ProgressOf(t) \/ Settles(t))
          => Discarded']_vars

\* C3: once a task has ended and the page shows Succeeded or Failed, a
\* progress event changes neither the progress nor anything else shown.
C3_NoProgressAfterTerminal ==
    [][\A t \in TaskIds :
          (/\ State \in Terminal
           /\ \E u \in TaskIds : HasEnded(u)
           /\ ProgressOf(t))
          => UNCHANGED ctl]_vars

\* C4: while an upload is shown as running, a progress callback never
\* lowers the percentage shown.
C4_ProgressNeverDecreases ==
    [][\A t \in TaskIds :
          (uploading /\ ProgressOf(t)) => progress' >= progress]_vars

\* C5: the result summary and the failure reason are never both set; in
\* Succeeded and Failed exactly one of them is set, in the other states
\* neither is.
C5_ExactlyOneOutcomeWhenTerminal ==
    /\ ~(result # Null /\ error # Null)
    /\ State \in Terminal => (result # Null) # (error # Null)
    /\ State \notin Terminal => result = Null /\ error = Null

\* C6: at most one upload is awaiting its response at any time.
C6_AtMostOneInFlight ==
    Cardinality({t \in TaskIds : InFlight(t)}) <= 1

C8_LifecycleMovesForward ==
    [][/\ (UploadButtonShown /\ handleUpload)
          => (State' = "Transferring" /\ progress' = 0)
       /\ \A t \in TaskIds :
            (State \in {"Transferring", "ServerProcessing"} /\ ProgressOf(t))
            => /\ Rank(State') >= Rank(State)
               /\ progress' = 100 => State' = "ServerProcessing"
       /\ \A t \in TaskIds, n \in Found :
            (/\ State \in {"Transferring", "ServerProcessing"}
             /\ InFlight(t)
             /\ uploadResolved(t, Response(tasks[t].file[1], n)))
            => /\ State' = "Succeeded"
               /\ result' = Some(Response(tasks[t].file[1], n))]_vars

\* C9: when an upload request fails the page shows Failed with the message
\* of the failure, no result summary and uploading cleared, and no upload
\* request is issued by that step.
C9_FailureEntersFailed ==
    [][\A t \in TaskIds :
          Rejects(t) =>
            /\ State' = "Failed"
            /\ error' # Null
            /\ \/ \E e \in AxiosFailures \cup {TimeoutError} :
                    error' = Some(handleApiError(e))
               \/ error' = Some(<<"An unexpected error occurred">>)
            /\ result' = Null
            /\ ~uploading'
            /\ requested' = requested
            /\ nextId' = nextId]_vars

\* C10: every started upload leaves the in-flight states: each pending call
\* settles, the step that settles it clears uploading and shows Succeeded or
\* Failed, and a timeout shows the transport failure.
C10_EveryUploadEnds ==
    /\ \A t \in TaskIds : InFlight(t) ~> ~InFlight(t)
    /\ uploading ~> ~uploading
    /\ [][\A t \in TaskIds :
            /\ Settles(t) => (~uploading' /\ State' \in Terminal)
            /\ UploadTimesOut(t) =>
                 error' = Some(<<"Network error: Unable to reach the server. Please check your connection.">>)
         ]_vars

\* C10, its case: a task ended by the timeout, shown as Failed with the
\* transport failure.
C10_Witness ==
    /\ State = "Failed"
    /\ ~uploading
    /\ error = Some(handleApiError(TimeoutError))
    /\ \E t \in TaskIds : tasks[t].status = "timedout"
    /\ \A t \in TaskIds : ~InFlight(t)

\* C11: when the file chosen in the dialog or dropped on the drop zone fails
\* validation, the selected file, the uploading flag, the progress and the
\* result are unchanged, no task is started and no request is issued; the
\* failure reason becomes the validation message of that file.
C11_InvalidFileChangesOnlyError ==
    [][\A f \in Files :
          (/\ validateFile(f) # Null
           /\ handleFileSelect(Some(f)) \/ handleDrop(Some(f)))
          => /\ UNCHANGED <<file, uploading, progress, result>>
             /\ UNCHANGED <<tasks, nextId, requested>>
             /\ error' = validateFile(f)]_vars

\* C11, its case: a valid file is selected and nothing was started; an
\* invalid file was then dropped, and only its validation message is shown.
C11_Witness ==
    \E f \in Files :
        /\ validateFile(f) # Null
        /\ error = validateFile(f)
        /\ file # Null
        /\ validateFile(file[1]) = Null
        /\ ~uploading
        /\ progress = 0
        /\ result = Null
        /\ nextId = 1

\* The message of validateFile for a PDF of n whole MiB and a remainder that
\* rounds to no hundredth
SizeLimitMessage(n) ==
    <<"File size (", ToString(n), ".", "0", "0", " MB) exceeds the 25 MB limit.">>

\* C22: the ceiling is inclusive.  A PDF of exactly 26,214,400 bytes passes
\* validateFile and the check of uploadPDF, so it can be selected and sent;
\* a PDF of 26,214,401 bytes fails validateFile with the size-limit message,
\* fails the check of uploadPDF, and is never selected and never sent.
C22_CeilingIsInclusive ==
    \A f \in Files :
        f.type = "application/pdf" =>
            /\ (validateFile(f) = Null) = (f.size <= 26214400)
            /\ (uploadPDFCheck(f) = Null) = (f.size <= 26214400)
            /\ f.size = 26214401 =>
                 /\ validateFile(f) = Some(SizeLimitMessage(25))
                 /\ uploadPDFCheck(f)
                      = Some(ThrownError("File size exceeds 25 MB limit."))
                 /\ file # Some(f)
                 /\ f \notin requested

\* C22, its case: the body of a PDF of exactly 26,214,400 bytes has been
\* transferred, and a PDF of 26,214,401 bytes dropped meanwhile was refused
\* with the size-limit message.
C22_Witness ==
    /\ \E t \in TaskIds :
          /\ InFlight(t)
          /\ tasks[t].file # Null
          /\ tasks[t].file[1].size = 26214400
          /\ tasks[t].sent
          /\ tasks[t].loaded = BodyUnits
          /\ tasks[t].file[1] \in requested
    /\ error = Some(SizeLimitMessage(25))

\* C23: the progress is an integer of 0..100 in every state, as is the
\* percentage of every progress event whose loaded does not exceed its
\* total; the page shows ServerProcessing exactly when uploading is set and
\* the progress is 100.
C23_ProgressIsPercentage ==
    /\ progress \in 0..100
    /\ (State = "ServerProcessing") = (uploading /\ progress = 100)
    /\ \A total \in 1..MaxTotal :
          \A loaded \in 0..total : percentCompleted(loaded, total) \in 0..100

\* C23, its case: the last progress event of a transfer reported the whole
\* body; the page shows ServerProcessing at 100 while the response is awaited.
C23_Witness ==
    /\ State = "ServerProcessing"
    /\ uploading
    /\ progress = 100
    /\ result = Null
    /\ \E t \in TaskIds : InFlight(t) /\ tasks[t].loaded = BodyUnits

\* C24: in Succeeded the result is the response to the upload of the file
\* that is selected.
C24_ResultIsOfSelectedFile ==
    State = "Succeeded" =>
        /\ file # Null
        /\ result[1].filename = file[1].name

-----------------------------------------------------------------------------
(* Properties of the results page *)

\* The place of an item's key in the order of its sort field
KeyRank(item, field) ==
    CASE field = "type" -> Position(item.intervention.type)
      [] field = "quantity" -> item.intervention.quantity
      [] field = "cost" -> item.total_cost
      [] field = "confidence" ->
            item.intervention.confidence.hundredths * 1000
            + item.intervention.confidence.ulps

\* confidence >= h / 100, h / 100 being the double of that literal
NotBelow(confidence, h) ==
    \/ confidence.hundredths > h
    \/ confidence.hundredths = h /\ confidence.ulps >= 0

\* C12: for every sort field and both directions, two items with equal keys
\* are in the sorted view in the order they have in estimate.items.
C12_SortIsStable ==
    estimate # Null =>
        LET items == estimate[1].items
            order == sortOrder(items, sortField, sortDirection)
        IN  /\ sortedItems = [i \in 1..Len(items) |-> items[order[i]]]
            /\ \A i, j \in 1..Len(order) :
                  (/\ i < j
                   /\ SortKey(items[order[i]], sortField)
                        = SortKey(items[order[j]], sortField))
                  => order[i] < order[j]

\* C12, its case: a descending sort by cost that moved the costlier second
\* item to the front and left the first and third items, which are different
\* items of one cost, in their order.
C12_Witness ==
    /\ estimate # Null
    /\ sortField = "cost"
    /\ sortDirection = "desc"
    /\ Len(estimate[1].items) = 3
    /\ estimate[1].items[1].total_cost = estimate[1].items[3].total_cost
    /\ estimate[1].items[1] # estimate[1].items[3]
    /\ estimate[1].items[2].total_cost > estimate[1].items[1].total_cost
    /\ sortedItems = << estimate[1].items[2], estimate[1].items[1],
                        estimate[1].items[3] >>

\* C13: for every sort field and direction the sorted view is a permutation
\* of estimate.items, and each row's key is not above the next row's when
\* ascending, not below it when descending.
C13_SortedViewIsOrderedPermutation ==
    estimate # Null =>
        LET items == estimate[1].items
            n == Len(items)
        IN  /\ Len(sortedItems) = n
            /\ \E p \in Permutations(1..n) :
                  \A i \in 1..n : sortedItems[i] = items[p[i]]
            /\ \A k \in 1..(n - 1) :
                  IF sortDirection = "asc"
                  THEN KeyRank(sortedItems[k], sortField)
                         <= KeyRank(sortedItems[k + 1], sortField)
                  ELSE KeyRank(sortedItems[k], sortField)
                         >= KeyRank(sortedItems[k + 1], sortField)

\* C13, its case: cost descending over three items fetched with the
\* cheapest first; the view lists them from highest to lowest total_cost.
C13_Witness ==
    /\ estimate # Null
    /\ sortField = "cost"
    /\ sortDirection = "desc"
    /\ Len(estimate[1].items) = 3
    /\ estimate[1].items[1].total_cost < estimate[1].items[3].total_cost
    /\ sortedItems[1].total_cost > sortedItems[3].total_cost
    /\ sortedItems[1].total_cost >= sortedItems[2].total_cost
    /\ sortedItems[2].total_cost >= sortedItems[3].total_cost

\* C14: the estimate the page holds is always an estimate as the fetch
\* returned it, items in the returned order: a response is stored as it
\* came, and no change of sort field or direction changes it.
C14_SortLeavesEstimate ==
    /\ [](estimate # Null => estimate[1] \in Stored(estimate[1].estimate_id))
    /\ [][/\ \A field \in SortFields :
               handleSort(field) => estimate' = estimate
          /\ \A k \in 1..Len(fetches) :
               \A data \in Stored(fetches[k]) :
                  fetchResolved(k, data) => estimate' = Some(data)]_vars

\* C14, its case: after sort changes the table shows the fetched estimate
\* by cost, descending, in another order than the fetched one, which the
\* estimate still has.
C14_Witness ==
    /\ TableShown
    /\ estimate[1] \in Stored("e1")
    /\ sortField = "cost"
    /\ sortDirection = "desc"
    /\ sortedItems # estimate[1].items

\* C15: the badge of a row is High Confidence when its confidence is at
\* least 0.95, Medium when it is at least 0.80 and below 0.95, and Review
\* Needed when it is below 0.80.
C15_TierByThreshold ==
    \A i \in 1..Len(sortedItems) :
        LET confidence == sortedItems[i].intervention.confidence
        IN  getConfidenceBadge(confidence) =
               IF NotBelow(confidence, 95) THEN "High Confidence"
               ELSE IF NotBelow(confidence, 80) THEN "Medium"
               ELSE "Review Needed"

\* C16: an export asks for one of csv, json and pdf of the estimate the
\* table shows, and names the file estimate_<id>.<format> with the
\* identifier and the format of that request.
C16_ExportNamesDisplayedEstimate ==
    [][\A format \in Formats :
          (TableShown /\ exporting = Null /\ handleExport(format))
          => exportCall' =
               Some([id |-> estimate[1].estimate_id, format |-> format,
                     filename |-> <<"estimate_", estimate[1].estimate_id,
                                    ".", format>>])]_vars

\* C20: an estimate with an item lacking a field that feeds a sort key is
\* never in the table: it is not sorted and not displayed.
C20_AbsentKeyIsReported ==
    TableShown =>
        \A i \in 1..Len(estimate[1].items), field \in SortFields :
            SortKey(estimate[1].items[i], field) # Null

\* The other value of the sort direction
Opposite(direction) == IF direction = "asc" THEN "desc" ELSE "asc"

\* The items whose audit trails the table shows, by their place in
\* estimate.items: the rows of the sorted view whose index is in expandedRows
expandedItems ==
    LET order == sortOrder(estimate[1].items, sortField, sortDirection)
    IN  {order[index + 1] : index \in expandedRows \cap 0..(Len(order) - 1)}

\* C21: toggleRow(index) flips the membership of index in expandedRows and of
\* no other index, leaves the estimate, the sort field and the sort direction
\* as they are, issues no request, and applied again gives the set back.
C21_ToggleFlipsOneIndex ==
    [][\A index \in 0..(Len(sortedItems) - 1) :
          toggleRow(index) =>
            /\ (index \in expandedRows') # (index \in expandedRows)
            /\ expandedRows' \ {index} = expandedRows \ {index}
            /\ UNCHANGED <<estimate, sortField, sortDirection>>
            /\ UNCHANGED <<fetches, exportCall, call, requested, tasks>>
            /\ newSet(expandedRows', index) = expandedRows]_vars

\* C21, its case: rows 0 and 2 were expanded one after the other; row 1 is
\* not, and no request is pending.
C21_Witness ==
    /\ TableShown
    /\ expandedRows = {0, 2}
    /\ Len(sortedItems) = 3
    /\ fetches = <<>>
    /\ exportCall = Null

\* C25: when no fetch is pending and the table is shown, the estimate shown
\* is the one of the route's identifier, the one requested last.
C25_LatestFetchWins ==
    (fetches = <<>> /\ id # Null /\ TableShown) =>
        estimate[1].estimate_id = id[1]

\* C26: a change of the sort field or of the sort direction leaves the set
\* of items whose audit trails are shown as it was.
C26_ExpansionFollowsItems ==
    [][\A field \in SortFields :
          (TableShown /\ handleSort(field)) =>
             expandedItems' = expandedItems]_vars

\* C27: the selection starts as (type, asc); handleSort of the selected field
\* keeps the field and gives the direction its other value, so that a second
\* one gives the direction back; handleSort of another field selects that
\* field with direction asc.
C27_SortSelection ==
    /\ sortField = "type" /\ sortDirection = "asc"
    /\ [](sortField \in SortFields /\ sortDirection \in {"asc", "desc"})
    /\ [][\A field \in SortFields :
            handleSort(field) =>
               IF field = sortField
               THEN /\ sortField' = sortField
                    /\ sortDirection' = Opposite(sortDirection)
                    /\ Opposite(sortDirection') = sortDirection
               ELSE /\ sortField' = field
                    /\ sortDirection' = "asc"]_vars

\* C27, its case: the quantity header was chosen, which selected quantity
\* ascending, and chosen again, which made the direction descending.
C27_Witness ==
    /\ TableShown
    /\ sortField = "quantity"
    /\ sortDirection = "desc"

-----------------------------------------------------------------------------
(* Properties of the client *)

NonEmpty(message) == \E i \in 1..Len(message) : message[i] # ""

NetworkMessage ==
    <<"Network error: Unable to reach the server. Please check your connection.">>

\* C17: a call of a client operation is pending, has returned, or has
\* raised; what it raised is one Error with a message that is not empty, and
\* is never the exception of the transport.
C17_OnlyNormalizedErrorsRaised ==
    call # Null =>
        /\ call[1].status \in {"pending", "returned", "raised"}
        /\ (call[1].status = "raised") = (call[1].raised # Null)
        /\ call[1].status = "raised" =>
             /\ call[1].raised[1].name = "Error"
             /\ NonEmpty(call[1].raised[1].message)
             /\ call[1].raised # call[1].reached
             /\ call[1].raised[1] \notin AxiosFailures \cup {TimeoutError}

\* C17, its case: a request that timed out; the caller got the normalized
\* Error.
C17_Witness ==
    /\ call # Null
    /\ call[1].status = "raised"
    /\ call[1].reached = Some(TimeoutError)
    /\ call[1].raised = Some(NewError(NetworkMessage))

C19_InvalidFileRaisesValidationError ==
    (/\ call # Null
     /\ call[1].op = "uploadPDF"
     /\ uploadPDFCheck(call[1].file[1]) # Null)
    => /\ ~call[1].sent
       /\ call[1].status = "raised"
       /\ call[1].raised[1].message
            = <<uploadPDFCheck(call[1].file[1])[1].message>>

====
